---- MODULE Spec2Model ----
(***************************************************************************)
(* Model of the image-automation core of src/anyi_main.py:                 *)
(*   ImageAutomation.wait_and_find_image      (the Locator)                *)
(*   ImageAutomation.click_image_with_offset  (the Actuator's retry loop)  *)
(*   ImageAutomation.type_text_safely / generate_random_email              *)
(*   ImageAutomation.perform_automation_sequence (the Sequencer)           *)
(*                                                                         *)
(* The program is single threaded.  Its state is the call stack (one frame *)
(* per active call, the innermost last), the value handed back by the call *)
(* that returned last, the clipboard, and a log of what was done.          *)
(*                                                                         *)
(* Time is counted in ticks of half a second.  The code reads the wall     *)
(* clock only as time.time() - start_time inside wait_and_find_image, so   *)
(* each locate frame carries that difference in its field elapsed, and     *)
(* every blocking sleep adds its duration to the elapsed field of every    *)
(* active locate frame.  A single-shot screen match takes no time in the   *)
(* model; what it returns is the environment's choice at every call.       *)
(***************************************************************************)
EXTENDS Integers, Sequences, FiniteSets, TLC

(***************************** program constants ***************************)
\* self.retry_count = 3
retry_count == 3
\* random.randint(-5, 5): the largest offset of a click on either axis
MaxOffset == 5
\* self.check_interval = 0.5 s, in ticks
check_interval == 1
\* time.sleep(0.5) before the 2nd and 3rd match of a poll cycle, in ticks
SettleDelay == 1
\* time.sleep(1) before the 2nd and 3rd attempt of a click, in ticks
StabilizeDelay == 2
\* time.sleep(random.uniform(0.3, 0.6)) between the steps of the sequence,
\* rounded up to a tick
JitterDelay == 1

(********************************* bounds **********************************)
\* self.max_wait_time, the default timeout of a locate, in ticks.  The code
\* sets 30 s; the model keeps the default small so that a locate that times
\* out, nested in another one, stays explorable.  The calls made directly
\* take longer timeouts, so that a locate runs several poll cycles.
max_wait_time == 2
\* the largest timeout handed to a call made directly (not by the sequence)
MaxTimeout == 8
\* number of distinct screen positions a match can report
NumPos == 2
\* number of distinct random local parts generate_random_email can return
NumEmails == 2

INTERRUPT == "7.png"
Images == {"1.png", "2.png", "3.png", "4.png", "5.png", "6.png", "7.png"}
\* the templates of the calls made directly: the code treats every template
\* but the interrupt template alike
DirectImages == {"1.png", INTERRUPT}
Positions == 1..NumPos
Emails == 1..NumEmails
\* Optional values are sets with at most one element: {} is None.
None == {}
Some(v) == {v}
The(s) == CHOOSE v \in s : TRUE
\* the timeouts of the calls whose polling is looked at attempt by attempt:
\* None, or a number of ticks that may be zero or negative
MaxPollTimeout == 3
PollTimeouts == {None} \cup {Some(t) : t \in (0 - 1)..MaxPollTimeout}
\* the timeouts of direct calls: None (the default) or an explicit number
Timeouts == {None} \cup {Some(t) : t \in 0..MaxTimeout}

VARIABLES
    stack,      \* the call stack, innermost frame last
    ret,        \* what the call that returned last handed to its caller
    clipboard,  \* the system clipboard: None or the text last copied
    trace,      \* the steps perform_automation_sequence has completed
    genCount,   \* number of generate_random_email calls
    app         \* the configuration, in memory and on disk, and what
                \* AnyiAutomation.run has done to the application so far

vars == <<stack, ret, clipboard, trace, genCount, app>>

(********************************* frames **********************************)
\* One record shape for every frame; a field a kind does not use keeps its
\* initial value.
\*   kind     "seq" | "click" | "locate"
\*   img      image_name
\*   timeout  the timeout argument (Optional)
\*   pc       position in the function body
\*   i        loop variable: i of the sequence loop, attempt, retry
\*   waiting  (seq) a click_image_with_offset call is in progress
\*   email    (seq) the local variable email
\*   elapsed  (locate) time.time() - start_time
\* history of the call, read by the properties only:
\*   nLocate  (click) wait_and_find_image calls made
\*   nStab    (click) stabilization sleeps made
\*   nClick   (click) pyautogui.click calls made (raising ones included)
\*   nRaise   (click) pyautogui.click calls that raised
\*   locAt    (click) attempt in which the last coordinate was obtained
\*   prompts  (prompt) number of input() calls made so far
\*   copied   (type) pyperclip.copy returned without raising
\*   target   (click) the point of the last pyautogui.click call, kept in
\*            the frame handed back with the result of that call
\*   polls    (locate) primary match attempts made
\*   cycles   (locate) poll cycles started
\*   checks   (locate) single-shot matches of the interrupt template made
\*   checkAt  (locate) elapsed at the last loop-condition test that passed
\*   popups   (locate) interrupt detections made
\*   detected (locate) the interrupt check of this cycle found the popup
\*   pending  (locate) the popup was detected and no click on the interrupt
\*            target has been performed since
\*   called7  (locate) the result of the click_image_with_offset("7.png")
\*            call of this cycle, once it has returned
\*   fileOk   (locate) the template file existed when the call started
Frame(kind, img, timeout, pc) ==
    [kind |-> kind, img |-> img, timeout |-> timeout, pc |-> pc, i |-> 0,
     waiting |-> FALSE, email |-> None, elapsed |-> 0,
     nLocate |-> 0, nStab |-> 0, nClick |-> 0, nRaise |-> 0,
     locAt |-> None, target |-> None, copied |-> FALSE,
     polls |-> 0, cycles |-> 0, checks |-> 0, checkAt |-> None, popups |-> 0, detected |-> FALSE,
     pending |-> FALSE, called7 |-> None, fileOk |-> TRUE, prompts |-> 0]

\* what a call hands back: fn its function, ok a boolean result, loc an
\* Optional coordinate, exc whether it ended by raising; f the frame as it
\* was when the call ended.
Ret(fn, ok, loc, exc, f) ==
    [fn |-> fn, ok |-> ok, loc |-> loc, exc |-> exc, f |-> f]

NoFrame == Frame("none", "", None, "")
NoRet == Ret("none", FALSE, None, FALSE, NoFrame)

Top == stack[Len(stack)]
Below == SubSeq(stack, 1, Len(stack) - 1)
Running(kind, pc) == Len(stack) > 0 /\ Top.kind = kind /\ Top.pc = pc

\* time.sleep(d): the clock advances by d for every active locate call
Sleep(stk, d) ==
    [k \in 1..Len(stk) |->
        IF stk[k].kind = "locate"
        THEN [stk[k] EXCEPT !.elapsed = @ + d] ELSE stk[k]]

\* replace the top frame; push a callee over the updated top frame
Goto(stk, f) == Append(SubSeq(stk, 1, Len(stk) - 1), f)
Call(stk, f, callee) == Append(Goto(stk, f), callee)
\* the top frame returns r to its caller
Return(r) == /\ stack' = Below
             /\ ret' = r

\* what one single-shot pyautogui.locateCenterOnScreen call can do: report
\* a center, report nothing (None, or ImageNotFoundException, which the
\* code treats alike), or raise
MatchOutcomes ==
    {[res |-> "miss", pos |-> 0], [res |-> "raise", pos |-> 0]}
    \cup {[res |-> "found", pos |-> p] : p \in Positions}
IsFound(o) == o.res = "found"
\* the Match a successful single-shot match of img reports
Match(img, o) == [img |-> img, pos |-> o.pos]

(************************ wait_and_find_image ******************************)
\* if timeout is None: timeout = self.max_wait_time
\* a default that also replaces a timeout of zero (if not timeout)
ResolveTimeout_Falsy(timeout) ==
    IF timeout = None \/ timeout = Some(0) THEN Some(max_wait_time)
    ELSE timeout

ResolveTimeout(timeout) ==
    IF timeout = None THEN Some(max_wait_time) ELSE timeout

\* a loop condition that asks whether the next poll interval still fits
LoopContinues_Early(f) == f.elapsed + check_interval < The(f.timeout)
\* a loop condition that lets the deadline itself start a cycle
LoopContinues_Inclusive(f) == f.elapsed <= The(f.timeout)

\* while time.time() - start_time < timeout
LoopContinues(f) == f.elapsed < The(f.timeout)

\* a locate that notes the missing template file and polls all the same
LocateStart_NoFileCheck ==
    /\ Running("locate", "start")
    /\ \E exists \in BOOLEAN :
          /\ stack' = Goto(stack, [Top EXCEPT
                                 !.timeout = ResolveTimeout(@),
                                 !.fileOk = exists,
                                 !.elapsed = 0, !.pc = "while"])
          /\ ret' = ret
    /\ UNCHANGED <<clipboard, trace, genCount, app>>

\* lines 442-451: default timeout, template file check, start_time
LocateStart ==
    /\ Running("locate", "start")
    /\ \E exists \in BOOLEAN :
          IF ~exists
          THEN Return(Ret("locate", FALSE, None, FALSE,
                          [Top EXCEPT !.timeout = ResolveTimeout(@),
                                      !.fileOk = FALSE]))
          ELSE /\ stack' = Goto(stack, [Top EXCEPT
                                 !.timeout = ResolveTimeout(@),
                                 !.elapsed = 0, !.pc = "while"])
               /\ ret' = ret
    /\ UNCHANGED <<clipboard, trace, genCount, app>>

\* a wait that never gives up: past the deadline it neither polls again
\* nor returns
LocateWhile_NoTimeout ==
    /\ Running("locate", "while")
    /\ LoopContinues(Top)
    /\ stack' = Goto(stack, [Top EXCEPT !.pc = "match", !.i = 0,
                                        !.cycles = @ + 1,
                                        !.checkAt = Some(Top.elapsed)])
    /\ ret' = ret
    /\ UNCHANGED <<clipboard, trace, genCount, app>>

\* line 453: the loop condition; lines 490-491 when it fails
LocateWhile ==
    /\ Running("locate", "while")
    /\ IF LoopContinues(Top)
       THEN /\ stack' = Goto(stack, [Top EXCEPT !.pc = "match", !.i = 0,
                                      !.cycles = @ + 1,
                                      !.checkAt = Some(Top.elapsed)])
            /\ ret' = ret
       ELSE Return(Ret("locate", FALSE, None, FALSE, Top))
    /\ UNCHANGED <<clipboard, trace, genCount, app>>

\* an interrupt check after every primary match attempt that found nothing
AfterMiss_CheckEach(f) == [f EXCEPT !.i = 0, !.pc = "interrupt"]

\* the frame after a primary match attempt that found nothing or raised:
\* the next retry of the for loop, or past the loop after the last one
AfterMiss(f) ==
    IF f.i + 1 < retry_count
    THEN [f EXCEPT !.i = @ + 1]
    ELSE [f EXCEPT !.i = 0, !.pc = "interrupt"]

\* a settle delay before every attempt, the first included
SettleBefore_Every(f) == SettleDelay

\* lines 456-458: if retry > 0: time.sleep(0.5)
SettleBefore(f) == IF f.i > 0 THEN SettleDelay ELSE 0

\* lines 454-473: one iteration of for retry in range(self.retry_count)
\* The attempts of a cycle differ in nothing but their outcome: a run
\* either counts the ones that raised (raises) or leaves that out.
LocatePoll(raises) ==
    /\ Running("locate", "match")
    /\ LET slept == IF SettleBefore(Top) > 0
                    THEN Sleep(stack, SettleBefore(Top)) ELSE stack
           f == [slept[Len(slept)] EXCEPT !.polls = @ + 1]
       IN \E o \in MatchOutcomes :
            IF IsFound(o)
            THEN /\ stack' = SubSeq(slept, 1, Len(slept) - 1)
                 /\ ret' = Ret("locate", TRUE, Some(Match(f.img, o)),
                               FALSE, f)
            ELSE /\ stack' = Goto(slept,
                       AfterMiss([f EXCEPT !.nRaise =
                           IF raises /\ o.res = "raise" THEN @ + 1 ELSE @]))
                 /\ ret' = ret
    /\ UNCHANGED <<clipboard, trace, genCount, app>>

LocateMatch == LocatePoll(FALSE)

LocateMatchCounted == LocatePoll(TRUE)

\* a locate that never looks for the popup
ChecksInterrupt_Never(f) == FALSE

\* a locate that looks for the popup whatever it is waiting for
ChecksInterrupt_Always(f) == TRUE

\* line 476: if image_name != "7.png"
ChecksInterrupt(f) == f.img # INTERRUPT

\* an interrupt check that logs the popup and does not click it
LocateInterruptCheck_LogOnly ==
    /\ Running("locate", "interrupt")
    /\ ChecksInterrupt(Top)
    /\ \E o \in MatchOutcomes :
          stack' = Goto(stack, [Top EXCEPT
                      !.pc = "sleep", !.detected = IsFound(o),
                      !.checks = @ + 1,
                      !.pending = IF IsFound(o) THEN TRUE ELSE @,
                      !.popups = IF IsFound(o) THEN @ + 1 ELSE @,
                      !.called7 = None])
    /\ UNCHANGED <<ret, clipboard, trace, genCount, app>>

\* lines 476-486: the single-shot match of 7.png; a detection calls
\* click_image_with_offset("7.png") with the default timeout and region
LocateInterruptCheck ==
    /\ Running("locate", "interrupt")
    /\ ChecksInterrupt(Top)
    /\ \E o \in MatchOutcomes :
          IF IsFound(o)
          THEN stack' = Call(stack,
                             [Top EXCEPT !.pc = "popup", !.popups = @ + 1,
                                         !.checks = @ + 1,
                                         !.detected = TRUE,
                                         !.pending = TRUE,
                                         !.called7 = None],
                             Frame("click", INTERRUPT, None, "attempt"))
          ELSE stack' = Goto(stack, [Top EXCEPT !.pc = "sleep",
                                                !.checks = @ + 1,
                                                !.detected = FALSE,
                                                !.called7 = None])
    /\ UNCHANGED <<ret, clipboard, trace, genCount, app>>

\* line 476 when image_name is "7.png": no interrupt check
LocateInterruptSkip ==
    /\ Running("locate", "interrupt")
    /\ ~ChecksInterrupt(Top)
    /\ stack' = Goto(stack, [Top EXCEPT !.pc = "sleep"])
    /\ UNCHANGED <<ret, clipboard, trace, genCount, app>>

\* a wait that gives up when the popup could not be dismissed
LocatePopupDone_Abort ==
    /\ Running("locate", "popup")
    /\ IF ret.ok
       THEN /\ stack' = Goto(stack, [Top EXCEPT !.pc = "sleep",
                                                !.called7 = Some(ret.ok)])
            /\ ret' = NoRet
       ELSE Return(Ret("locate", FALSE, None, FALSE,
                       [Top EXCEPT !.called7 = Some(ret.ok)]))
    /\ UNCHANGED <<clipboard, trace, genCount, app>>

\* lines 484-486: click_image_with_offset("7.png") has returned; its
\* result is dropped, and except Exception: pass drops what it raised
LocatePopupDone ==
    /\ Running("locate", "popup")
    /\ stack' = Goto(stack, [Top EXCEPT !.pc = "sleep",
                                        !.called7 = Some(ret.ok)])
    /\ ret' = NoRet
    /\ UNCHANGED <<clipboard, trace, genCount, app>>

\* line 488: time.sleep(self.check_interval)
LocateSleep ==
    /\ Running("locate", "sleep")
    /\ LET slept == Sleep(stack, check_interval)
       IN stack' = Goto(slept, [slept[Len(slept)] EXCEPT !.pc = "while"])
    /\ UNCHANGED <<ret, clipboard, trace, genCount, app>>

(************************ click_image_with_offset **************************)
\* pyautogui.click performed on img: the locate calls that detected the
\* popup and are waiting for this click have had their popup clicked
Clicked(stk, img) ==
    [k \in 1..Len(stk) |->
        IF stk[k].kind = "locate" /\ img = INTERRUPT
        THEN [stk[k] EXCEPT !.pending = FALSE] ELSE stk[k]]

\* offsets drawn from a range one wider on each side
Offsets_Wide == (0 - MaxOffset - 1)..(MaxOffset + 1)

\* random.randint(-5, 5)
Offsets == (0 - MaxOffset)..MaxOffset

\* a click next to the place the locate reported
ClickPoint_Elsewhere(f, loc, dx, dy) ==
    [img |-> loc.img, pos |-> (loc.pos % NumPos) + 1, dx |-> dx, dy |-> dy]

\* lines 512-517: the point handed to pyautogui.click: the center the
\* locate of this attempt returned, moved by the two random offsets
ClickPoint(f, loc, dx, dy) ==
    [img |-> loc.img, pos |-> loc.pos, dx |-> dx, dy |-> dy]

\* an attempt loop that runs once more than retry_count
HasAttempt_OneMore(f) == f.i <= retry_count

\* line 505: for attempt in range(self.retry_count)
HasAttempt(f) == f.i < retry_count

\* lines 505-510: the head of the attempt loop up to the locate call;
\* lines 526-527 once the loop is exhausted
ClickAttempt ==
    /\ Running("click", "attempt")
    /\ IF HasAttempt(Top)
       THEN /\ LET slept == IF Top.i > 0
                            THEN Sleep(stack, StabilizeDelay) ELSE stack
                   f == [Top EXCEPT !.pc = "located",
                                    !.nLocate = @ + 1,
                                    !.nStab = IF Top.i > 0 THEN @ + 1 ELSE @]
               IN stack' = Call(slept, f,
                                Frame("locate", f.img, f.timeout, "start"))
            /\ ret' = NoRet
       ELSE Return(Ret("click", FALSE, None, FALSE, Top))
    /\ UNCHANGED <<clipboard, trace, genCount, app>>

\* a click whose exception is not caught
ClickRaised_Propagate(f) ==
    Return(Ret("click", FALSE, None, TRUE, f))

\* lines 520-524: what the except clause does with a raising click: False
\* on the last attempt, the next attempt otherwise; pyautogui.click is
\* then the call that returned last, by raising
ClickRaised(f) ==
    IF f.i = retry_count - 1
    THEN Return(Ret("click", FALSE, None, FALSE, f))
    ELSE /\ stack' = Goto(stack, [f EXCEPT !.i = @ + 1, !.pc = "attempt",
                                           !.target = None])
         /\ ret' = Ret("pyautogui.click", FALSE, None, TRUE, f)

\* lines 511-524: the locate call has returned. The two offsets move the
\* point clicked and nothing else: a run either keeps the point of each
\* click (jitter) or leaves the offsets out
ClickDispatch(jitter) ==
    /\ Running("click", "located")
    /\ IF ret.exc
       THEN \* nothing catches what wait_and_find_image raises
            Return(Ret("click", FALSE, None, TRUE, Top))
       ELSE IF ret.loc # None
       THEN \E raises \in BOOLEAN :
            \E dx, dy \in IF jitter THEN Offsets ELSE {0} :
              LET pt == ClickPoint(Top, The(ret.loc), dx, dy)
                  f == [Top EXCEPT
                          !.nClick = @ + 1, !.locAt = Some(Top.i),
                          !.target = IF jitter THEN Some(pt) ELSE None]
              IN IF raises
                 THEN ClickRaised([f EXCEPT !.nRaise = @ + 1])
                 ELSE /\ stack' = Clicked(Below, f.img)
                      /\ ret' = Ret("click", TRUE, ret.loc, FALSE, f)
       ELSE /\ stack' = Goto(stack, [Top EXCEPT !.i = @ + 1,
                                                !.pc = "attempt"])
            /\ ret' = NoRet
    /\ UNCHANGED <<clipboard, trace, genCount, app>>

ClickLocated == ClickDispatch(FALSE)

ClickJitter == ClickDispatch(TRUE)

(************************ perform_automation_sequence **********************)
Png == <<"1.png", "2.png", "3.png">>

\* the image each click statement of the body names
SeqImage(f) ==
    CASE f.pc = "loop"   -> Png[f.i]
      [] f.pc = "click4" -> "4.png"
      [] f.pc = "click5" -> "5.png"
      [] f.pc = "click1" -> "1.png"
      [] f.pc = "click6" -> "6.png"

ClickPcs == {"loop", "click4", "click5", "click1", "click6"}
TypePcs == {"type1", "type2"}

\* a body in which the second click on 1.png is missing
SeqNext_SkipClick1(f) ==
    CASE f.pc = "loop"   -> IF f.i < 3 THEN [f EXCEPT !.i = @ + 1]
                            ELSE [f EXCEPT !.pc = "gen"]
      [] f.pc = "gen"    -> [f EXCEPT !.pc = "type1"]
      [] f.pc = "type1"  -> [f EXCEPT !.pc = "click4"]
      [] f.pc = "click4" -> [f EXCEPT !.pc = "type2"]
      [] f.pc = "type2"  -> [f EXCEPT !.pc = "click5"]
      [] f.pc = "click5" -> [f EXCEPT !.pc = "click6"]
      [] f.pc = "click1" -> [f EXCEPT !.pc = "click6"]
      [] f.pc = "click6" -> [f EXCEPT !.pc = "end"]

\* the statement that follows the one at f.pc when it did not return
SeqNext(f) ==
    CASE f.pc = "loop"   -> IF f.i < 3 THEN [f EXCEPT !.i = @ + 1]
                            ELSE [f EXCEPT !.pc = "gen"]
      [] f.pc = "gen"    -> [f EXCEPT !.pc = "type1"]
      [] f.pc = "type1"  -> [f EXCEPT !.pc = "click4"]
      [] f.pc = "click4" -> [f EXCEPT !.pc = "type2"]
      [] f.pc = "type2"  -> [f EXCEPT !.pc = "click5"]
      [] f.pc = "click5" -> [f EXCEPT !.pc = "click1"]
      [] f.pc = "click1" -> [f EXCEPT !.pc = "click6"]
      [] f.pc = "click6" -> [f EXCEPT !.pc = "end"]

Event(step, img, ok, text, how) ==
    [step |-> step, img |-> img, ok |-> ok, text |-> text, how |-> how]

\* lines 593, 604, 612, 618, 624: self.click_image_with_offset(image_name)
SeqClick ==
    /\ Len(stack) > 0 /\ Top.kind = "seq"
    /\ Top.pc \in ClickPcs /\ ~Top.waiting
    /\ stack' = Call(stack, [Top EXCEPT !.waiting = TRUE],
                     Frame("click", SeqImage(Top), None, "attempt"))
    /\ ret' = NoRet
    /\ UNCHANGED <<clipboard, trace, genCount, app>>

\* a click step that logs the failed click and goes on
SeqClickFailed_GoOn(f) ==
    /\ stack' = Goto(Sleep(stack, JitterDelay), SeqNext(f))
    /\ ret' = NoRet

\* what a click step does with a failed click: lines 594-595 and the like
SeqClickFailed(f) ==
    Return(Ret("seq", FALSE, None, FALSE, f))

\* the click has returned: return False if it failed, else the jitter
\* sleep and the next statement; lines 629-630 after the last one;
\* lines 631-633 if the call raised
SeqClicked ==
    /\ Len(stack) > 0 /\ Top.kind = "seq"
    /\ Top.pc \in ClickPcs /\ Top.waiting
    /\ LET f == [Top EXCEPT !.waiting = FALSE]
       IN IF ret.exc
          THEN /\ Return(Ret("seq", FALSE, None, FALSE, f))
               /\ trace' = trace
          ELSE /\ trace' = Append(trace,
                                  Event("click", SeqImage(f), ret.ok, None, ""))
               /\ IF ~ret.ok
                  THEN SeqClickFailed(f)
                  ELSE IF SeqNext(f).pc = "end"
                  THEN Return(Ret("seq", TRUE, None, FALSE, SeqNext(f)))
                  ELSE /\ stack' = Goto(Sleep(stack, JitterDelay), SeqNext(f))
                       /\ ret' = NoRet
    /\ UNCHANGED <<clipboard, genCount, app>>

\* lines 568-580 called from line 599: email = self.generate_random_email()
SeqGen ==
    /\ Running("seq", "gen")
    /\ \E e \in Emails :
          /\ stack' = Goto(stack, SeqNext([Top EXCEPT !.email = Some(e)]))
          /\ trace' = Append(trace, Event("gen", "", TRUE, Some(e), ""))
    /\ genCount' = genCount + 1
    /\ UNCHANGED <<ret, clipboard, app>>

\* lines 543-566: how type_text_safely(text) ends. The paste path is
\* pyperclip.copy then the ctrl+v hotkey; if either raises, the fallback
\* pyautogui.write runs; if that raises too nothing was typed. It returns
\* None in every case.
TypeHow(copyOk, pasteOk, writeOk) ==
    IF copyOk /\ pasteOk THEN "paste"
    ELSE IF writeOk THEN "write" ELSE "failed"

\* a text entry that puts back what the clipboard held before
ClipboardAfter_Restore(clip, text, copyOk) == clip

\* line 555: pyperclip.copy(text) sets the clipboard unless it raises
ClipboardAfter(clip, text, copyOk) == IF copyOk THEN text ELSE clip

\* a second text entry that is handed another address than the first
TypeArg_Other(f) ==
    IF f.pc = "type2" THEN Some(CHOOSE e \in Emails : e \notin f.email)
    ELSE f.email

\* lines 600 and 608: the text handed to type_text_safely
TypeArg(f) == f.email

\* lines 600-601 and 608-609: self.type_text_safely(email), jitter sleep
SeqType ==
    /\ Len(stack) > 0 /\ Top.kind = "seq" /\ Top.pc \in TypePcs
    /\ \E copyOk, pasteOk, writeOk \in BOOLEAN :
          \* the hotkey is not reached when the copy raised
          /\ (~copyOk => pasteOk)
          /\ clipboard' = ClipboardAfter(clipboard, TypeArg(Top), copyOk)
          /\ trace' = Append(trace,
                 Event("type", "", TypeHow(copyOk, pasteOk, writeOk) # "failed",
                       TypeArg(Top), TypeHow(copyOk, pasteOk, writeOk)))
          \* type_text_safely returns None whatever happened inside it
          /\ ret' = Ret("type", FALSE, None, FALSE,
                        [Frame("type", "", None, "end") EXCEPT
                            !.email = TypeArg(Top), !.copied = copyOk])
    /\ stack' = Goto(Sleep(stack, JitterDelay), SeqNext(Top))
    /\ UNCHANGED <<genCount, app>>

(**************** ConfigManager, ProgramRunner, AnyiAutomation *************)
\* max_retries = 3 of AnyiAutomation.run and of _prompt_and_run_anyi
run_max_retries == 3
prompt_max_retries == 3
\* wait_and_find_image("1.png", timeout=1): one second, in ticks
WindowTimeout == 2
\* time.sleep(0.3) of the window wait, rounded up to a tick
WindowPause == 1
\* max_wait_time of AnyiAutomation.run, in ticks
launch_wait_time == 5

\* what a configuration file or a user can name: nothing, a path that
\* validate_exe_path refuses, and one that it accepts
Paths == {"", "C:/Anyi.txt", "C:/Anyi.exe"}
ValidPaths == {"C:/Anyi.exe"}
\* a configuration file that cannot be read or parsed
Corrupt == "<corrupt>"
\* the configuration file: None when absent, else its anyi_path
Files == {None} \cup {Some(c) : c \in Paths \cup {Corrupt}}
Targets == <<"Anyi.exe", "anyi-core.exe">>

\* lines 288-304
validate_exe_path(path) == path \in ValidPaths

\* lines 70-78: the default when the file is absent or cannot be loaded
LoadConfig(file) ==
    IF file = None \/ file = Some(Corrupt) THEN "" ELSE The(file)

\* lines 87-93: the file after save_config: rewritten, or, when the write
\* raised, left as it was or left unreadable
SaveOutcomes == {"written", "refused", "torn"}
SaveConfig(file, path, how) ==
    CASE how = "written" -> Some(path)
      [] how = "refused" -> file
      [] how = "torn"    -> Some(Corrupt)

\* one thing AnyiAutomation.run or ProgramRunner did: ev what, arg to what
Did(ev, arg) == [ev |-> ev, arg |-> arg]
NoApp == [file |-> None, config |-> "", log |-> <<>>]

\* lines 380-391 of _run_anyi_exe: the process is still running after 2 s,
\* or it has exited, or Popen raised
Launch(path, launched) ==
    Did(IF launched THEN "launched" ELSE "launch failed", path)

\* lines 659-667 and 722-723: terminate_process on each of names
Terminate(names) == [k \in 1..Len(names) |-> Did("terminate", names[k])]

\* line 331: if not anyi_path or not FileManager.validate_exe_path(anyi_path)
NeedsPrompt(path) == path = "" \/ ~validate_exe_path(path)

\* lines 328-333: run_anyi
RunAnyi ==
    /\ Running("run_anyi", "start")
    /\ IF NeedsPrompt(app.config)
       THEN /\ stack' = Call(stack, [Top EXCEPT !.pc = "prompted"],
                             Frame("prompt", "", None, "loop"))
            /\ ret' = ret
            /\ app' = app
       ELSE \E launched \in BOOLEAN :
               /\ app' = [app EXCEPT
                            !.log = Append(@, Launch(app.config, launched))]
               /\ Return(Ret("run_anyi", launched, None, FALSE, Top))
    /\ UNCHANGED <<clipboard, trace, genCount>>

\* line 332: return self._prompt_and_run_anyi()
RunAnyiPrompted ==
    /\ Running("run_anyi", "prompted")
    /\ Return(Ret("run_anyi", ret.ok, None, FALSE, Top))
    /\ UNCHANGED <<clipboard, trace, genCount, app>>

\* what input() does: raise, or hand back a line
Inputs == {[raises |-> TRUE, path |-> ""]}
          \cup {[raises |-> FALSE, path |-> p] : p \in Paths}

\* a prompt loop that asks once more than max_retries
PromptContinues_OneMore(f) == f.i <= prompt_max_retries

\* line 345: while retry_count < max_retries
PromptContinues(f) == f.i < prompt_max_retries

\* a prompt that stores every path that passed validation
Confirmed_Unlaunched(path, launched) == validate_exe_path(path)

\* lines 350-351: the path passed validation and _run_anyi_exe returned True
Confirmed(path, launched) == validate_exe_path(path) /\ launched

\* lines 345-365: one round of the loop of _prompt_and_run_anyi, or its end
PromptLoop ==
    /\ Running("prompt", "loop")
    /\ IF PromptContinues(Top)
       THEN \E input \in Inputs :
            \E launched \in IF ~input.raises /\ validate_exe_path(input.path)
                            THEN BOOLEAN ELSE {FALSE} :
            \E how \in IF Confirmed(input.path, launched)
                       THEN SaveOutcomes ELSE {"refused"} :
              LET f == [Top EXCEPT !.prompts = @ + 1]
                  asked == Append(app.log,
                                  Did(IF input.raises THEN "prompt raised"
                                      ELSE "prompt", input.path))
                  tried == IF ~input.raises /\ validate_exe_path(input.path)
                           THEN Append(asked, Launch(input.path, launched))
                           ELSE asked
              IN IF ~input.raises /\ Confirmed(input.path, launched)
                 THEN \* lines 352-354: set_anyi_path(anyi_path), return True
                      /\ app' = [file |-> SaveConfig(app.file, input.path, how),
                                 config |-> input.path,
                                 log |-> Append(tried,
                                                Did("stored", input.path))]
                      /\ Return(Ret("prompt", TRUE, None, FALSE, f))
                 ELSE \* lines 355-361: retry_count += 1
                      /\ app' = [app EXCEPT !.log = tried]
                      /\ stack' = Goto(stack, [f EXCEPT !.i = @ + 1])
                      /\ ret' = ret
       ELSE /\ Return(Ret("prompt", FALSE, None, FALSE, Top))
            /\ app' = app
    /\ UNCHANGED <<clipboard, trace, genCount>>

\* lines 659-678: terminate the target processes that are running, delete
\* the configuration folder of the application, call run_anyi
RunStart ==
    /\ Running("run", "start")
    /\ \E running \in SUBSET {1, 2} :
          app' = [app EXCEPT !.log =
                     @ \o Terminate(SelectSeq(Targets,
                              LAMBDA n : \E k \in running : Targets[k] = n))]
    /\ stack' = Call(stack, [Top EXCEPT !.pc = "launched"],
                     Frame("run_anyi", "", None, "start"))
    /\ ret' = NoRet
    /\ UNCHANGED <<clipboard, trace, genCount>>

\* lines 678-687: give up if run_anyi failed, else retry_count = 0
RunLaunched ==
    /\ Running("run", "launched")
    /\ IF ret.ok
       THEN /\ stack' = Goto(stack, [Top EXCEPT !.pc = "retry", !.i = 0])
            /\ ret' = NoRet
       ELSE Return(Ret("run", FALSE, None, FALSE, Top))
    /\ UNCHANGED <<clipboard, trace, genCount, app>>

\* a retry loop that runs once more than max_retries
RunContinues_OneMore(f) == f.i <= run_max_retries

\* line 689: while retry_count < max_retries
RunContinues(f) == f.i < run_max_retries

\* lines 689-693: the head of the retry loop: retry_start_time
RunRetry ==
    /\ Running("run", "retry")
    /\ IF RunContinues(Top)
       THEN /\ stack' = Goto(stack, [Top EXCEPT !.pc = "window",
                                                !.elapsed = 0])
            /\ ret' = ret
            /\ app' = [app EXCEPT !.log = Append(@, Did("attempt", ""))]
       ELSE /\ Return(Ret("run", FALSE, None, FALSE, Top))
            /\ app' = app
    /\ UNCHANGED <<clipboard, trace, genCount>>

\* lines 695-707: one round of the window wait. wait_and_find_image with
\* timeout=1 returns a Match, or None once its timeout has passed, at most
\* a poll later; it raises nothing
RunWindow ==
    /\ Running("run", "window")
    /\ IF Top.elapsed < launch_wait_time
       THEN \E found \in BOOLEAN, late \in 0..check_interval :
              IF found
              THEN /\ stack' = Goto(stack, [Top EXCEPT !.pc = "sequence"])
                   /\ app' = [app EXCEPT
                                !.log = Append(@, Did("window", "1.png"))]
              ELSE /\ stack' = Goto(stack, [Top EXCEPT !.elapsed =
                                     @ + WindowTimeout + late + WindowPause])
                   /\ app' = app
       ELSE \* raise Exception: the window did not appear
            /\ stack' = Goto(stack, [Top EXCEPT !.pc = "failed"])
            /\ app' = [app EXCEPT !.log = Append(@, Did("no window", ""))]
    /\ UNCHANGED <<ret, clipboard, trace, genCount>>

\* lines 709-715: perform_automation_sequence returns True or False and
\* raises nothing; it may have left an address on the clipboard
RunSequence ==
    /\ Running("run", "sequence")
    /\ \E ok \in BOOLEAN :
          /\ app' = [app EXCEPT !.log =
                        Append(@, Did(IF ok THEN "sequence done"
                                      ELSE "sequence failed", ""))]
          /\ IF ok
             THEN Return(Ret("run", TRUE, None, FALSE, Top))
             ELSE /\ stack' = Goto(stack, [Top EXCEPT !.pc = "failed"])
                  /\ ret' = ret
    /\ \E e \in Emails : clipboard' \in {clipboard, Some(e)}
    /\ UNCHANGED <<trace, genCount>>

\* lines 717-730: the except clause of the retry loop
RunFailed ==
    /\ Running("run", "failed")
    /\ LET f == [Top EXCEPT !.i = @ + 1]
       IN IF RunContinues(f)
          THEN /\ app' = [app EXCEPT !.log = @ \o Terminate(Targets)]
               /\ stack' = Call(stack, [f EXCEPT !.pc = "relaunched"],
                                Frame("run_anyi", "", None, "start"))
               /\ ret' = NoRet
          ELSE /\ Return(Ret("run", FALSE, None, FALSE, f))
               /\ app' = app
    /\ UNCHANGED <<clipboard, trace, genCount>>

\* lines 726-728: go round again unless the relaunch failed
RunRelaunched ==
    /\ Running("run", "relaunched")
    /\ IF ret.ok
       THEN /\ stack' = Goto(stack, [Top EXCEPT !.pc = "retry"])
            /\ ret' = NoRet
       ELSE Return(Ret("run", FALSE, None, FALSE, Top))
    /\ UNCHANGED <<clipboard, trace, genCount, app>>

(***************************** the whole program ***************************)
\* The calls a run starts with: the sequence, or one click or one locate
\* of any template with any timeout.
Entries ==
    {Frame("seq", "", None, "loop")}
    \cup {Frame("click", img, t, "attempt") :
              img \in DirectImages, t \in Timeouts}
    \cup {Frame("locate", img, t, "start") :
              img \in DirectImages, t \in Timeouts}

\* the state a call starts in: for the sequence, i = 1 of range(1, 4)
Enter(f) == IF f.kind = "seq" THEN [f EXCEPT !.i = 1] ELSE f

Init ==
    /\ \E f \in Entries : stack = <<Enter(f)>>
    /\ ret = NoRet
    /\ clipboard = None
    /\ trace = <<>>
    /\ genCount = 0
    /\ app = NoApp

Next ==
    \/ LocateStart
    \/ LocateWhile
    \/ LocateMatch
    \/ LocateInterruptCheck
    \/ LocateInterruptSkip
    \/ LocatePopupDone
    \/ LocateSleep
    \/ ClickAttempt
    \/ ClickLocated
    \/ SeqClick
    \/ SeqClicked
    \/ SeqGen
    \/ SeqType

Spec == Init /\ [][Next]_vars

\* The program is one thread that is never suspended for good: whenever
\* it has a next step it takes one, sleeps included (time advances).
FairSpec == Spec /\ WF_vars(Next)

(* click_image_with_offset called on its own the way every caller calls it,
   with no timeout, the point of every click kept *)
ClickInit ==
    /\ \E img \in DirectImages :
          stack = <<Frame("click", img, None, "attempt")>>
    /\ ret = NoRet
    /\ clipboard = None
    /\ trace = <<>>
    /\ genCount = 0
    /\ app = NoApp

ClickNext ==
    \/ LocateStart
    \/ LocateWhile
    \/ LocateMatch
    \/ LocateInterruptCheck
    \/ LocateInterruptSkip
    \/ LocatePopupDone
    \/ LocateSleep
    \/ ClickAttempt
    \/ ClickJitter

ClickSpec == ClickInit /\ [][ClickNext]_vars

(* wait_and_find_image or click_image_with_offset called on its own, with
   a timeout that may be zero or negative, the attempts that raised counted *)
PollInit ==
    /\ \E kind \in {"locate", "click"}, img \in DirectImages,
          t \in PollTimeouts :
          stack = <<Frame(kind, img, t,
                          IF kind = "locate" THEN "start" ELSE "attempt")>>
    /\ ret = NoRet
    /\ clipboard = None
    /\ trace = <<>>
    /\ genCount = 0
    /\ app = NoApp

PollNext ==
    \/ LocateStart
    \/ LocateWhile
    \/ LocateMatchCounted
    \/ LocateInterruptCheck
    \/ LocateInterruptSkip
    \/ LocatePopupDone
    \/ LocateSleep
    \/ ClickAttempt
    \/ ClickLocated

PollSpec == PollInit /\ [][PollNext]_vars

(* AnyiAutomation().run(): the configuration is loaded when the object is
   built; the image calls of run are taken by their results *)
RunInit ==
    /\ stack = <<Frame("run", "", None, "start")>>
    /\ ret = NoRet
    /\ clipboard = None
    /\ trace = <<>>
    /\ genCount = 0
    /\ \E file \in Files :
          app = [file |-> file, config |-> LoadConfig(file), log |-> <<>>]

RunNext ==
    \/ RunStart
    \/ RunAnyi
    \/ RunAnyiPrompted
    \/ PromptLoop
    \/ RunLaunched
    \/ RunRetry
    \/ RunWindow
    \/ RunSequence
    \/ RunFailed
    \/ RunRelaunched

RunSpec == RunInit /\ [][RunNext]_vars

(******************************* properties ********************************)
Done == stack = <<>>
\* the frames of the stack of a given kind
FramesOf(kind) == {stack[k] : k \in {j \in 1..Len(stack) : stack[j].kind = kind}}
IsPrefix(a, b) == Len(a) <= Len(b) /\ a = SubSeq(b, 1, Len(a))
SeqReturned == Done /\ ret.fn = "seq"

\* the script perform_automation_sequence is specified to follow
ExpectedScript ==
    <<"click 1.png", "click 2.png", "click 3.png", "gen", "type",
      "click 4.png", "type", "click 5.png", "click 1.png", "click 6.png">>

StepName(e) == IF e.step = "click" THEN "click " \o e.img ELSE e.step
IsFailedClick(e) == e.step = "click" /\ ~e.ok
\* the steps performed so far: every step the sequence has completed but
\* a click step whose click_image_with_offset call returned False
Performed ==
    LET done == SelectSeq(trace, LAMBDA e : ~IsFailedClick(e))
    IN [k \in 1..Len(done) |-> StepName(done[k])]

C2_AbortOnFirstFailure ==
    \A k \in 1..Len(trace) :
        IsFailedClick(trace[k])
        => /\ k = Len(trace)
           /\ SeqReturned /\ ~ret.ok
           /\ k <= 3 => /\ genCount = 0
                         /\ clipboard = None
                         /\ \A j \in 1..Len(trace) :
                               /\ trace[j].step = "click"
                               /\ trace[j].img \in {"1.png", "2.png", "3.png"}

\* the click on 3.png failed after the clicks on 1.png and 2.png succeeded
C2_Witness ==
    /\ Len(trace) = 3
    /\ IsFailedClick(trace[3]) /\ trace[3].img = "3.png"

\* C3 as claimed: once a text entry has failed (the paste path and the
\* fallback both raised), no later step of the script is performed and the
\* sequence returns False.
C3_TypeFailureAborts ==
    \A k \in 1..Len(trace) :
        trace[k].step = "type" /\ trace[k].how = "failed"
        => /\ k = Len(trace)
           /\ SeqReturned => ~ret.ok

\* C4: generate_random_email is called at most once, and only after the
\* clicks on 1.png, 2.png and 3.png succeeded; a completed run called it
\* once and handed its value to both text entries, the second of them
\* after the click on 4.png.
C4_OneEmail ==
    /\ genCount <= 1
    /\ genCount = Cardinality({k \in 1..Len(trace) : trace[k].step = "gen"})
    /\ genCount = 1
       => /\ Len(trace) >= 4
          /\ \A k \in 1..3 : /\ trace[k].step = "click" /\ trace[k].ok
                              /\ trace[k].img = Png[k]
          /\ trace[4].step = "gen"
    /\ \A k \in 1..Len(trace) :
          trace[k].step = "type" => genCount = 1 /\ trace[k].text = trace[4].text
    /\ SeqReturned /\ ret.ok
       => /\ genCount = 1
          /\ {k \in 1..Len(trace) : trace[k].step = "type"} = {5, 7}
          /\ trace[6].step = "click" /\ trace[6].img = "4.png" /\ trace[6].ok

\* a completed run that typed its email twice
C4_Witness ==
    /\ SeqReturned /\ ret.ok /\ genCount = 1
    /\ Cardinality({k \in 1..Len(trace) : trace[k].step = "type"}) = 2

\* a click_image_with_offset call has just returned
ClickReturned == ret.fn = "click"
\* a wait_and_find_image call has just returned empty after its template
\* file was found
LocateTimedOut == ret.fn = "locate" /\ ret.loc = None /\ ret.f.fileOk

\* C5: click_image_with_offset calls wait_and_find_image at most
\* retry_count times, with one stabilization sleep before every call but
\* the first; a call that never obtained a coordinate made exactly
\* retry_count locate calls and retry_count - 1 stabilization sleeps,
\* dispatched no click and returned False.
C5_BoundedRetry ==
    /\ \A f \in FramesOf("click") :
          /\ f.nLocate <= retry_count
          /\ f.nStab = IF f.nLocate = 0 THEN 0 ELSE f.nLocate - 1
    /\ ClickReturned
       => /\ ret.f.nLocate <= retry_count
          /\ ret.f.nStab = ret.f.nLocate - 1
          /\ ret.f.locAt = None
             => /\ ret.f.nLocate = retry_count
                /\ ret.f.nStab = retry_count - 1
                /\ ret.f.nClick = 0
                /\ ~ret.ok

\* a click call that returned after retry_count empty locates
C5_Witness ==
    /\ ClickReturned /\ ret.f.locAt = None
    /\ ret.f.nLocate = retry_count /\ ~ret.ok

\* C6: click_image_with_offset never ends by raising; it returns True
\* only with the coordinate the locate of its last attempt returned for
\* its own template and a click that did not raise; every raising click
\* was followed by a new attempt with a locate of its own, or, on the
\* last attempt, by the result False.
C6_ClickResult ==
    /\ \A f \in FramesOf("click") :
          /\ f.nRaise <= f.i
          /\ f.nClick = f.nRaise
          /\ f.pc = "located" => f.nLocate = f.i + 1
    /\ ClickReturned
       => /\ ~ret.exc
          /\ ret.f.nLocate = ret.f.i + 1 \/ ret.f.i = retry_count
          /\ ret.ok => /\ ret.loc # None
                        /\ The(ret.loc).img = ret.f.img
                        /\ ret.f.locAt = Some(ret.f.i)
                        /\ ret.f.nLocate = ret.f.i + 1
                        /\ ret.f.nClick = ret.f.nRaise + 1
          /\ ~ret.ok => ret.f.nClick = ret.f.nRaise
          /\ ret.f.nRaise > 0 /\ ret.f.locAt = Some(ret.f.i) /\ ~ret.ok
             => ret.f.i = retry_count - 1

\* a click call whose click raised on the last attempt and that returned
\* False
C6_Witness ==
    /\ ClickReturned /\ ~ret.ok /\ ~ret.exc
    /\ ret.f.nRaise > 0 /\ ret.f.locAt = Some(retry_count - 1)

\* C7: a locate whose template file exists returns empty only when at
\* least its timeout has elapsed since it started.
C7_NotBeforeDeadline ==
    LocateTimedOut => ret.f.elapsed >= The(ret.f.timeout)

\* a locate with a timeout of several poll cycles that polled and timed out
C7_Witness ==
    /\ LocateTimedOut /\ ret.f.polls > retry_count
    /\ The(ret.f.timeout) > check_interval

\* the sleeps of one poll cycle that finds nothing and detects no popup
CycleSleep == (retry_count - 1) * SettleDelay + check_interval
\* the longest a click_image_with_offset("7.png") call can take: retry_count
\* locates of the default timeout, each ending less than one cycle after its
\* deadline, and the stabilization sleeps between them
DismissMax ==
    retry_count * (max_wait_time - 1 + CycleSleep)
    + (retry_count - 1) * StabilizeDelay

\* C8 as claimed: a locate that returns empty does so no later than its
\* timeout plus one poll interval after it started.
C8_WithinOnePollInterval ==
    LocateTimedOut => ret.f.elapsed <= The(ret.f.timeout) + check_interval

\* C8 as amended: a locate that returns empty does so less than one whole
\* poll cycle after its deadline: the last loop test that passed did so
\* before the deadline, and the cycle it started lasted the two settle
\* sleeps and the poll interval, plus the click_image_with_offset("7.png")
\* call if that cycle detected the popup.
C8_WithinOneCycle ==
    LocateTimedOut
    => /\ ret.f.checkAt = None => ret.f.elapsed = 0
       /\ ret.f.checkAt # None
          => /\ The(ret.f.checkAt) < The(ret.f.timeout)
             /\ ret.f.elapsed >= The(ret.f.checkAt) + CycleSleep
             /\ ret.f.elapsed <= The(ret.f.checkAt) + CycleSleep
                                 + (IF ret.f.detected THEN DismissMax ELSE 0)
       /\ ret.f.popups = 0 /\ The(ret.f.timeout) > 0
          => ret.f.elapsed < The(ret.f.timeout) + CycleSleep

\* a locate that saw no popup and returned empty more than one poll
\* interval after its deadline
C8_Witness ==
    /\ LocateTimedOut /\ ret.f.popups = 0
    /\ ret.f.elapsed > The(ret.f.timeout) + check_interval

\* C9 as claimed: no primary poll of a cycle begins while a detected popup
\* has not been clicked.
C9_PopupClickedBeforeNextPoll ==
    \A f \in FramesOf("locate") : f.pc = "match" /\ f.i = 0 => ~f.pending

\* C9 as amended: when the interrupt check of a cycle detected the popup,
\* click_image_with_offset("7.png") was called and has returned before the
\* poll interval sleep and the next primary poll; the popup has been
\* clicked by then exactly when that call returned True.
C9_DismissalAttempted ==
    \A f \in FramesOf("locate") :
        f.detected /\ f.pc \in {"sleep", "while", "match"}
        => /\ f.called7 # None
           /\ The(f.called7) <=> ~f.pending

\* the next primary poll begins after the popup was detected and clicked
C9_Witness ==
    \E f \in FramesOf("locate") :
        /\ f.pc = "match" /\ f.i = 0
        /\ f.detected /\ f.called7 = Some(TRUE) /\ ~f.pending

\* one step of the frame at position k of the stack, a locate frame at or
\* past its interrupt check: it goes on to the poll interval sleep and the
\* loop test, whatever the check found and whatever the dismissal did, and
\* a loop test before the deadline starts the next primary poll
InterruptKeepsSearch(k) ==
    LET f == stack[k]
        stays == Len(stack') >= k /\ stack'[k].kind = "locate"
                 /\ stack'[k].img = f.img /\ stack'[k].timeout = f.timeout
        g == stack'[k]
    IN /\ f.pc = "interrupt" => stays /\ g.pc \in {"popup", "sleep"}
       /\ f.pc = "popup" /\ k < Len(stack) => stays /\ g.pc = "popup"
       /\ f.pc = "popup" /\ k = Len(stack)
          => stays /\ Len(stack') = k /\ g.pc = "sleep"
       /\ f.pc = "sleep" => stays /\ Len(stack') = k /\ g.pc = "while"
       /\ f.pc = "while" /\ f.elapsed < The(f.timeout)
          => stays /\ Len(stack') = k /\ g.pc = "match" /\ g.i = 0

\* C10: a locate returns a match of its own template or nothing, never a
\* match of another template; and the interrupt check never ends the
\* search: after it the loop sleeps, tests the deadline and, when the
\* deadline is not reached, starts another primary poll.
C10_InterruptNeverStopsSearch ==
    [][/\ ret'.fn = "locate" /\ ret'.loc # None
          => The(ret'.loc).img = ret'.f.img
       /\ \A k \in 1..Len(stack) :
             stack[k].kind = "locate" => InterruptKeepsSearch(k)]_vars

\* a primary poll begins after a popup was detected and its dismissal
\* failed
C10_Witness ==
    \E f \in FramesOf("locate") :
        /\ f.pc = "match" /\ f.i = 0 /\ f.polls >= retry_count
        /\ f.detected /\ f.called7 = Some(FALSE)

\* a wait_and_find_image call has just returned
LocateReturned == ret.fn = "locate"

\* C11 as claimed: a locate of another template than the interrupt
\* template scans for the interrupt template in every poll cycle, the cycle
\* in which its template is found included.
C11_ScanEveryCycle ==
    LocateReturned /\ ret.f.img # INTERRUPT => ret.f.checks = ret.f.cycles

\* C11 as amended: a locate of another template than the interrupt template
\* scans for the interrupt template once in every poll cycle whose primary
\* attempts all found nothing, and not in the cycle that finds its
\* template: a locate that times out made one scan per cycle, a locate
\* that returns a match one scan less than its cycles.
C11_ScanEveryMissedCycle ==
    /\ \A f \in FramesOf("locate") :
          f.img # INTERRUPT
          => f.checks = IF f.pc \in {"popup", "sleep", "while"}
                        THEN f.cycles
                        ELSE IF f.cycles = 0 THEN 0 ELSE f.cycles - 1
    /\ LocateReturned /\ ret.f.img # INTERRUPT
       => ret.f.checks = IF ret.loc = None \/ ret.f.cycles = 0
                         THEN ret.f.cycles ELSE ret.f.cycles - 1

\* a locate that found its template in its second cycle, after one scan
C11_Witness ==
    /\ LocateReturned /\ ret.f.img # INTERRUPT /\ ret.loc # None
    /\ ret.f.cycles = 2 /\ ret.f.checks = 1

\* C12: the interrupt check of a cycle comes after all retry_count primary
\* attempts of that cycle: the scan, the dismissal and the nested calls it
\* makes happen only with every attempt of every started cycle made, and
\* between the attempts of a cycle no scan is made and no call is nested.
C12_CheckAfterRetries ==
    \A k \in 1..Len(stack) :
        LET f == stack[k]
        IN f.kind = "locate"
           => /\ k < Len(stack) => f.pc = "popup"
              /\ f.pc \in {"interrupt", "popup", "sleep"}
                 => f.polls = retry_count * f.cycles
              /\ f.pc = "match"
                 => /\ f.polls = retry_count * (f.cycles - 1) + f.i
                    /\ f.img # INTERRUPT => f.checks = f.cycles - 1
              /\ f.checks > 0 => f.polls >= retry_count * f.checks

\* the dismissal of a detected popup is running, after the three primary
\* attempts of the cycle
C12_Witness ==
    \E k \in 1..Len(stack) :
        /\ stack[k].kind = "locate" /\ stack[k].pc = "popup"
        /\ k < Len(stack) /\ stack[k].polls = retry_count

(***************************************************************************)
(* C13: every click is dispatched at the coordinate the locate call of the *)
(* same attempt has just returned for the image being clicked, and at no   *)
(* other: a step dispatches a click exactly when the click frame resumes   *)
(* with a Match handed back by its own locate, and the point clicked has   *)
(* that Match's center. The dismissal click on 7.png is no exception: it   *)
(* uses the Match its own locate of 7.png returned (popup_location of the  *)
(* detecting scan is only logged, line 483).                               *)
(***************************************************************************)
ClickResumes == Running("click", "located")

C13_ClickAtOwnMatch ==
    [][IF ClickResumes /\ ~ret.exc /\ ret.loc # None
       THEN /\ ret.fn = "locate" /\ ret.f.kind = "locate"
            /\ ret.f.img = Top.img /\ ret.f.polls > 0
            /\ ret'.f.kind = "click" /\ ret'.f.i = Top.i
            /\ ret'.f.nClick = Top.nClick + 1
            /\ ret'.f.target # None
            /\ The(ret'.f.target).img = Top.img
            /\ The(ret'.f.target).pos = The(ret.loc).pos
       ELSE ret'.f.target # None => ret' = ret]_vars

\* the second attempt of a dismissal click, after the click of the first
\* attempt raised, has clicked where its own locate found 7.png
C13_Witness ==
    /\ Len(stack) = 2 /\ Top.kind = "locate" /\ Top.pc = "popup"
    /\ ret.fn = "click" /\ ret.ok /\ ret.f.img = INTERRUPT
    /\ ret.f.i = 1 /\ ret.f.nRaise = 1
    /\ ret.f.target = Some([img |-> INTERRUPT, pos |-> NumPos,
                            dx |-> 0, dy |-> 0])

(***************************************************************************)
(* C14: the two offsets of a click are integers between -5 and 5, the      *)
(* boundaries included, and are drawn independently of each other.         *)
(***************************************************************************)
C14_OffsetsInRange ==
    ret.f.target # None
    => LET pt == The(ret.f.target)
       IN /\ pt.dx \in Int /\ 0 - MaxOffset <= pt.dx /\ pt.dx <= MaxOffset
          /\ pt.dy \in Int /\ 0 - MaxOffset <= pt.dy /\ pt.dy <= MaxOffset

\* a click at the lowest horizontal and the highest vertical offset
C14_Witness ==
    /\ ret.fn = "click" /\ ret.ok /\ ret.f.target # None
    /\ The(ret.f.target).dx = 0 - MaxOffset
    /\ The(ret.f.target).dy = MaxOffset

(***************************************************************************)
(* C15: a locate whose template file is absent returns empty at once,      *)
(* whatever its timeout: it has made no match attempt, started no poll     *)
(* cycle, made no interrupt check or dismissal call and slept no time, and *)
(* it raises nothing. Every locate that is past the file check has found   *)
(* its file.                                                               *)
(***************************************************************************)
C15_AbsentFileReturnsAtOnce ==
    /\ LocateReturned /\ ~ret.f.fileOk
       => /\ ret.loc = None /\ ~ret.ok /\ ~ret.exc
          /\ ret.f.polls = 0 /\ ret.f.cycles = 0
          /\ ret.f.checks = 0 /\ ret.f.popups = 0
          /\ ret.f.elapsed = 0 /\ ret.f.pc = "start"
    /\ \A f \in FramesOf("locate") : f.fileOk

\* a locate called with the longest timeout whose file is absent
C15_Witness ==
    /\ LocateReturned /\ ~ret.f.fileOk /\ stack = <<>>
    /\ ret.f.img = "1.png" /\ ret.f.timeout = Some(MaxTimeout)

(***************************************************************************)
(* C17: the clipboard is written by text entry only and never put back.    *)
(* A step that is no text entry leaves the clipboard as it was; a text     *)
(* entry whose copy returned leaves it equal to the text entered, one      *)
(* whose copy raised leaves it as it was; and a sequence that returns True *)
(* after some entry went by the paste path ends with the clipboard holding *)
(* the address of that run.                                                *)
(***************************************************************************)
TypeReturns == ret'.fn = "type" /\ ret' # ret

PastedEntries == {k \in 1..Len(trace) :
                     trace[k].step = "type" /\ trace[k].how = "paste"}

EndsWithEmail ==
    SeqReturned /\ ret.ok /\ PastedEntries # {}
    => \A k \in 1..Len(trace) :
           trace[k].step \in {"gen", "type"} => clipboard = trace[k].text

C17_ClipboardOnlyByTextEntry ==
    [][/\ IF TypeReturns
          THEN /\ Len(stack) > 0 /\ Top.kind = "seq" /\ Top.pc \in TypePcs
               /\ ret'.f.email = Top.email
               /\ clipboard' = IF ret'.f.copied THEN ret'.f.email
                                ELSE clipboard
          ELSE clipboard' = clipboard
       /\ Len(stack) > 0 /\ Top.kind = "seq" /\ Top.pc \in TypePcs
          => TypeReturns
       /\ EndsWithEmail']_vars

\* a completed sequence whose entries both went by the paste path
C17_Witness ==
    /\ SeqReturned /\ ret.ok /\ Cardinality(PastedEntries) = 2
    /\ clipboard # None /\ clipboard \subseteq Emails

(***************************************************************************)
(* C16: as long as the program keeps running and time advances, every call *)
(* of wait_and_find_image, of click_image_with_offset and of               *)
(* perform_automation_sequence returns, whatever the screen does and       *)
(* whatever the matches and the clicks raise; the call returns a result    *)
(* and no exception, the sequence True or False.                           *)
(***************************************************************************)
Returned ==
    /\ Done /\ ret.fn \in {"locate", "click", "seq"} /\ ~ret.exc
    /\ ret.fn = "locate" => ret.ok = (ret.loc # None)

C16_EveryCallReturns == <>Returned

\* a sequence that gave up at its last click, after a click had raised
C16_Witness ==
    /\ SeqReturned /\ ~ret.ok /\ ~ret.exc
    /\ ret.f.pc = "click6" /\ Len(trace) = 10

(***************************************************************************)
(* C18: AnyiAutomation.run makes at most three attempts (window wait plus  *)
(* sequence). A successful launch comes directly before every attempt and  *)
(* every sequence follows the window of its attempt; a failed attempt that *)
(* is not the third is followed by terminate_process on Anyi.exe and on    *)
(* anyi-core.exe and then by run_anyi, the third by nothing; and a         *)
(* sequence that succeeded is the last thing the run does.                 *)
(***************************************************************************)
Log == app.log
LogOf(evs) == {k \in 1..Len(Log) : Log[k].ev \in evs}
Attempts == LogOf({"attempt"})
Failures == LogOf({"no window", "sequence failed"})
AttemptsBefore(k) == Cardinality({j \in Attempts : j < k})

C18_BoundedAttempts ==
    /\ Cardinality(Attempts) <= run_max_retries
    /\ \A k \in Attempts :
          /\ k > 1
          /\ \/ Log[k - 1].ev = "launched"
             \/ Log[k - 1].ev = "stored" /\ Log[k - 2].ev = "launched"
    /\ \A k \in LogOf({"window", "no window"}) : Log[k - 1].ev = "attempt"
    /\ \A k \in LogOf({"sequence done", "sequence failed"}) :
          Log[k - 1].ev = "window"
    /\ \A k \in Failures :
          IF AttemptsBefore(k) < run_max_retries
          THEN \/ k = Len(Log) /\ Running("run", "failed")
               \/ /\ Len(Log) >= k + 2
                  /\ Log[k + 1] = Did("terminate", "Anyi.exe")
                  /\ Log[k + 2] = Did("terminate", "anyi-core.exe")
                  /\ \/ Len(stack) > 1
                     \/ Len(Log) > k + 2
                        /\ Log[k + 3].ev
                              \in {"launched", "launch failed", "prompt",
                                   "prompt raised"}
          ELSE k = Len(Log) /\ (Done \/ Running("run", "failed"))
    /\ \A k \in LogOf({"sequence done"}) :
          k = Len(Log) /\ Done /\ ret.fn = "run" /\ ret.ok

\* a run whose third attempt succeeded
C18_Witness ==
    /\ Done /\ ret.fn = "run" /\ ret.ok
    /\ Cardinality(Attempts) = run_max_retries
    /\ Cardinality(Failures) = 2

(***************************************************************************)
(* C19 as claimed: the configuration file holds a path as soon as          *)
(* set_anyi_path has been called with it.                                  *)
(***************************************************************************)
C19_RewrittenWheneverConfirmed ==
    Len(Log) > 0 /\ Log[Len(Log)].ev = "stored"
    => app.file = Some(Log[Len(Log)].arg)

(***************************************************************************)
(* C19 as amended: set_anyi_path is called exactly when a prompted path    *)
(* passed validation and its launch was confirmed. The call sets the path  *)
(* in memory and writes the file, but a write that fails is only logged:   *)
(* the file is then as it was or unreadable. No other step changes the     *)
(* path in memory or the file, and until a path is stored the path in      *)
(* memory is the one loaded, the empty default if the file is absent.      *)
(***************************************************************************)
Stores == Len(app'.log) > Len(Log) /\ app'.log[Len(app'.log)].ev = "stored"

C19_StoredWhenConfirmed ==
    [][/\ IF Stores
          THEN LET n == Len(app'.log)
                   path == app'.log[n].arg
               IN /\ Running("prompt", "loop")
                  /\ validate_exe_path(path)
                  /\ n = Len(Log) + 3
                  /\ app'.log[n - 1] = Did("launched", path)
                  /\ app'.log[n - 2] = Did("prompt", path)
                  /\ app'.config = path
                  /\ app'.file \in {Some(path), app.file, Some(Corrupt)}
                  /\ ret'.fn = "prompt" /\ ret'.ok
          ELSE /\ app'.file = app.file /\ app'.config = app.config
               /\ \A k \in (Len(Log) + 1)..Len(app'.log) :
                     ~(/\ app'.log[k].ev = "launched"
                       /\ k > 1 /\ app'.log[k - 1].ev = "prompt")
       /\ {k \in 1..Len(app'.log) : app'.log[k].ev = "stored"} = {}
          => /\ app'.config = LoadConfig(app'.file)
             /\ app'.file = None => app'.config = ""]_vars

\* the third prompt was confirmed and the file, absent before, holds it
C19_Witness ==
    /\ ret.fn = "prompt" /\ ret.ok /\ ret.f.prompts = prompt_max_retries
    /\ Log[1].ev = "prompt raised"
    /\ app.config \in ValidPaths /\ app.file = Some(app.config)

(***************************************************************************)
(* C20: run_anyi hands a failed launch back to its caller as False, and    *)
(* _prompt_and_run_anyi asks for a path at most three times in one call:   *)
(* every prompt that raised, named an invalid path or led to a failed      *)
(* launch has been counted, a call that returns False has asked three      *)
(* times, and one that returns True has asked once more than it counted.   *)
(* run_anyi returns True exactly when the last thing done was a confirmed  *)
(* launch.                                                                 *)
(***************************************************************************)
\* the prompts of the log since the last thing that was no prompt and no
\* failed launch: the prompts of the current call of _prompt_and_run_anyi
PromptsSinceCall ==
    LET asks == {"prompt", "prompt raised"}
        others == {k \in 1..Len(Log) :
                      Log[k].ev \notin asks \cup {"launch failed"}}
    IN Cardinality({k \in LogOf(asks) : \A j \in others : j < k})

C20_BoundedPrompts ==
    /\ \A f \in FramesOf("prompt") :
          f.prompts = f.i /\ f.i <= prompt_max_retries
    /\ ret.fn = "prompt"
       => /\ ~ret.exc
          /\ ret.f.prompts <= prompt_max_retries
          /\ ret.f.prompts = IF ret.ok THEN ret.f.i + 1 ELSE ret.f.i
          /\ ~ret.ok => ret.f.i = prompt_max_retries
    /\ ret.fn \in {"prompt", "run_anyi"}
       => /\ Len(Log) > 0
          /\ ret.ok = (Log[Len(Log)].ev \in {"launched", "stored"})
    /\ \A f \in FramesOf("prompt") : PromptsSinceCall = f.prompts
    /\ ret.fn = "prompt" /\ ~ret.ok => PromptsSinceCall = ret.f.prompts

\* run_anyi gave up after a prompt that raised, one that named an invalid
\* path and one whose launch failed
C20_Witness ==
    /\ ret.fn = "run_anyi" /\ ~ret.ok
    /\ Cardinality(LogOf({"prompt", "prompt raised"})) = prompt_max_retries
    /\ LogOf({"prompt raised"}) # {} /\ LogOf({"launch failed"}) # {}
    /\ \E k \in LogOf({"prompt"}) : ~validate_exe_path(Log[k].arg)

(***************************************************************************)
(* C21: a poll cycle makes at most retry_count primary match attempts one  *)
(* after the other, with the settle delay before the second and the third  *)
(* and none before the first. The attempt that matches returns at once and *)
(* the rest of the cycle is not made; an attempt that misses or raises is  *)
(* followed by the next attempt, or by the interrupt check after the last  *)
(* one: it ends neither the cycle nor the call.                            *)
(***************************************************************************)
Attempting == Running("locate", "match")

C21_AttemptsOfACycle ==
    [][Attempting
       => LET f == Top
              settled == f.elapsed + (IF f.i = 0 THEN 0 ELSE SettleDelay)
          IN /\ f.i < retry_count
             /\ f.polls = retry_count * (f.cycles - 1) + f.i
             /\ IF Len(stack') < Len(stack)
                THEN /\ ret'.fn = "locate" /\ ret'.ok /\ ret'.loc # None
                     /\ ret'.f.polls = f.polls + 1 /\ ret'.f.i = f.i
                     /\ ret'.f.cycles = f.cycles
                     /\ ret'.f.elapsed = settled
                     /\ ret'.f.nRaise = f.nRaise
                ELSE LET g == stack'[Len(stack')]
                     IN /\ Len(stack') = Len(stack) /\ ret' = ret
                        /\ g.kind = "locate" /\ g.cycles = f.cycles
                        /\ g.polls = f.polls + 1
                        /\ g.elapsed = settled
                        /\ g.nRaise \in {f.nRaise, f.nRaise + 1}
                        /\ IF f.i + 1 < retry_count
                           THEN g.pc = "match" /\ g.i = f.i + 1
                           ELSE g.pc = "interrupt"]_vars

\* of the first two attempts of the only cycle one raised and one missed,
\* and the third matched, two settle delays after the cycle began
C21_Witness ==
    /\ LocateReturned /\ ret.loc # None /\ stack = <<>>
    /\ ret.f.cycles = 1 /\ ret.f.polls = retry_count
    /\ ret.f.nRaise = 1 /\ ret.f.elapsed = 2 * SettleDelay

(***************************************************************************)
(* C22: interrupt handling does not recurse. A locate of 7.png makes no    *)
(* interrupt check and no dismissal call, so nothing is ever nested in it: *)
(* at most two locate calls are on the stack, the outer one for another    *)
(* template, suspended in its dismissal call of click_image_with_offset    *)
(* on 7.png, whose locate of 7.png is the innermost call. Only that        *)
(* innermost call samples the screen.                                      *)
(***************************************************************************)
Locates == {k \in 1..Len(stack) : stack[k].kind = "locate"}

C22_NoRecursion ==
    /\ \A k \in Locates :
          /\ stack[k].img = INTERRUPT
             => /\ k = Len(stack)
                /\ stack[k].checks = 0 /\ stack[k].popups = 0
                /\ stack[k].pc # "popup"
          /\ k < Len(stack)
             => /\ stack[k].pc = "popup" /\ stack[k].img # INTERRUPT
                /\ stack[k + 1].kind = "click"
                /\ stack[k + 1].img = INTERRUPT
                /\ Len(stack) <= k + 2
                /\ stack[Len(stack)].img = INTERRUPT
    /\ Cardinality(Locates) <= 2
    /\ LocateReturned /\ ret.f.img = INTERRUPT
       => ret.f.checks = 0 /\ ret.f.popups = 0

\* a locate of 7.png, called to dismiss the popup, has been through a whole
\* poll cycle and is about to sleep without having looked for the popup
C22_Witness ==
    /\ Cardinality(Locates) = 2
    /\ Top.kind = "locate" /\ Top.img = INTERRUPT
    /\ Top.pc = "sleep" /\ Top.cycles = 1 /\ Top.polls = retry_count

(***************************************************************************)
(* C23 as claimed: a locate with a timeout above zero has made at least    *)
(* one primary match attempt when it returns.                              *)
(***************************************************************************)
C23_AttemptWheneverPositive ==
    LocateReturned /\ The(ret.f.timeout) > 0 => ret.f.polls >= 1

(***************************************************************************)
(* C23 as amended: a locate with a timeout of zero or less starts no poll  *)
(* cycle: it makes no match attempt and no interrupt check, takes no time  *)
(* and returns empty, whatever is on the screen; a click with such a       *)
(* timeout returns False after retry_count empty locates and no click. A   *)
(* locate with a timeout above zero has made at least one primary match    *)
(* attempt when it returns, provided its template file exists.             *)
(***************************************************************************)
GivenNonPositive(f) == f.timeout # None /\ The(f.timeout) <= 0

C23_NoAttemptWithoutTime ==
    /\ \A k \in Locates :
          GivenNonPositive(stack[k])
          => /\ k = Len(stack) /\ stack[k].pc \in {"start", "while"}
             /\ stack[k].polls = 0 /\ stack[k].cycles = 0
    /\ LocateReturned /\ GivenNonPositive(ret.f)
       => /\ ret.loc = None /\ ~ret.ok /\ ~ret.exc
          /\ ret.f.polls = 0 /\ ret.f.cycles = 0 /\ ret.f.checks = 0
          /\ ret.f.elapsed = 0
    /\ LocateReturned /\ The(ret.f.timeout) > 0 /\ ret.f.fileOk
       => ret.f.polls >= 1 /\ ret.f.cycles >= 1
    /\ ret.fn = "click" /\ GivenNonPositive(ret.f)
       => /\ ~ret.ok /\ ~ret.exc
          /\ ret.f.nLocate = retry_count /\ ret.f.nClick = 0

\* the third locate of a click with timeout 0 has come back empty without
\* an attempt although its template file is there
C23_Witness ==
    /\ Len(stack) = 1 /\ Top.kind = "click" /\ Top.nLocate = retry_count
    /\ LocateReturned /\ ret.f.timeout = Some(0) /\ ret.f.fileOk
    /\ ret.f.polls = 0 /\ ret.loc = None

====
